---- MODULE Spec2Model ----
(***************************************************************************)
(* RZ-EasyFPGA board support: the board pin table (_io), the platform's    *)
(* resource resolver and constraint emitter, the clock/reset generator     *)
(* (_CRG) and the SoC assembly (BaseSoC.__init__).                         *)
(*                                                                         *)
(* The pin table, Platform.__init__, _CRG.__init__ and BaseSoC.__init__    *)
(* are translated from the two source files.  request, request_all and     *)
(* add_platform_command are inherited from the platform base class, whose  *)
(* code is not part of the source tree; they are modelled from sections    *)
(* 4.2 and 4.4 of the specification.                                       *)
(***************************************************************************)
EXTENDS Integers, Sequences, FiniteSets

VARIABLES
    pc,         \* position in BaseSoC.__init__ ("free": a bare platform)
    opts,       \* the arguments of BaseSoC.__init__
    consumed,   \* the resolver's consumed set of <<name, index>> pairs
    handles,    \* the ResourceHandles returned so far, in order
    result,     \* outcome of the last resolver call
    calls,      \* history of resolver calls: [op, name, index, result, before, after]
    commands,   \* the platform's accumulated toolchain directives
    emitted,    \* history of the commands passed to add_platform_command, in call order
    domains,    \* the clock domains the CRG has created
    clkouts,    \* the PLL outputs the CRG has configured
    sdram_clk   \* name of the domain driving the SDRAM clock pin ("none" before)

vars == <<pc, opts, consumed, handles, result, calls, commands, emitted,
          domains, clkouts, sdram_clk>>

----------------------------------------------------------------------------
(* Bounds of the model *)

\* resolver calls made on a bare platform
MaxCalls == 3
\* directives added after Platform construction
MaxEmits == 2

----------------------------------------------------------------------------
(* Board pin table *)

LVTTL == "3.3-V LVTTL"

\* Pins("a b", "c") of a signal without subsignals, or one Subsignal
Sub(subname, pins) == [subname |-> subname, pins |-> pins]

Res(name, index, subsignals) ==
    [name |-> name, index |-> index, subsignals |-> subsignals, standard |-> LVTTL]

_io == <<
    Res("clk50", 0, << Sub("", <<"23">>) >>),
    Res("rst_n", 0, << Sub("", <<"25">>) >>),
    Res("user_led", 0, << Sub("", <<"84">>) >>),
    Res("user_led", 1, << Sub("", <<"85">>) >>),
    Res("user_led", 2, << Sub("", <<"86">>) >>),
    Res("user_led", 3, << Sub("", <<"87">>) >>),
    Res("key", 0, << Sub("", <<"88">>) >>),
    Res("key", 1, << Sub("", <<"89">>) >>),
    Res("key", 2, << Sub("", <<"90">>) >>),
    Res("key", 3, << Sub("", <<"91">>) >>),
    Res("buzzer", 0, << Sub("", <<"110">>) >>),
    Res("temp_i2c", 0, << Sub("scl", <<"112">>), Sub("sda", <<"113">>) >>),
    Res("eeprom_i2c", 0, << Sub("scl", <<"99">>), Sub("sda", <<"98">>) >>),
    Res("spiflash", 0, << Sub("cs_n", <<"8">>), Sub("clk", <<"12">>),
                          Sub("mosi", <<"6">>), Sub("miso", <<"13">>) >>),
    Res("serial", 0, << Sub("tx", <<"114">>), Sub("rx", <<"119">>) >>),
    Res("vga", 0, << Sub("hsync", <<"101">>), Sub("vsync", <<"103">>),
                     Sub("r", <<"106">>), Sub("g", <<"105">>), Sub("b", <<"104">>) >>),
    Res("lcd_display", 0,
        << Sub("data", <<"142", "1", "144", "3", "2", "10", "7", "11">>),
           Sub("rs", <<"141">>), Sub("rw", <<"138">>), Sub("e", <<"143">>) >>),
    Res("segled", 0,
        << Sub("ca", <<"128">>), Sub("cb", <<"121">>), Sub("cc", <<"125">>),
           Sub("cd", <<"129">>), Sub("ce", <<"132">>), Sub("cf", <<"126">>),
           Sub("cg", <<"124">>), Sub("dp", <<"127">>),
           Sub("digits", <<"133", "135", "136", "137">>) >>),
    Res("ps2", 0, << Sub("clk", <<"119">>), Sub("data", <<"120">>) >>),
    Res("irda", 0, << Sub("rxd", <<"100">>) >>),
    Res("gpio", 0, << Sub("", <<"24", "111">>) >>),
    Res("sdram_clock", 0, << Sub("", <<"43">>) >>),
    Res("sdram", 0,
        << Sub("a", <<"76", "77", "80", "83", "68", "67", "66", "65",
                      "64", "60", "75", "59">>),
           Sub("ba", <<"73", "74">>),
           Sub("cs_n", <<"72">>),
           Sub("cke", <<"58">>),
           Sub("ras_n", <<"71">>),
           Sub("cas_n", <<"70">>),
           Sub("we_n", <<"69">>),
           Sub("dq", <<"28", "30", "31", "32", "33", "34", "38", "39",
                       "54", "53", "52", "51", "50", "49", "46", "44">>),
           Sub("dm", <<"42", "55">>) >>)
>>

Range(s) == {s[k] : k \in DOMAIN s}

\* every physical pin an entry lists, across all its subsignals
PinsOf(e) == UNION {Range(s.pins) : s \in Range(e.subsignals)}

\* the <<name, index>> pairs of the table
RegistryPairs == {<<_io[k].name, _io[k].index>> : k \in DOMAIN _io}

\* the positions of the entries matching (name, index)
Matches(name, index) ==
    {k \in DOMAIN _io : _io[k].name = name /\ _io[k].index = index}

\* lookup(name, index) is NotFound
NotFound(name, index) == Matches(name, index) = {}

\* lookup(name, index) -> PinSpec: the first matching entry
Lookup(name, index) ==
    _io[CHOOSE k \in Matches(name, index) : \A j \in Matches(name, index) : k <= j]

----------------------------------------------------------------------------
(* Platform request resolver (specification section 4.2) *)

\* every index registered under a name
IndicesOf(name) == {_io[k].index : k \in {j \in DOMAIN _io : _io[j].name = name}}

\* mutant: the consumed set is never consulted
RequestOutcomeNoConsumedCheck(cons, name, index) ==
    IF NotFound(name, index) THEN "UnknownResource" ELSE "ok"

\* outcome of request(name, index) against the consumed set cons
RequestOutcome(cons, name, index) ==
    IF NotFound(name, index) THEN "UnknownResource"
    ELSE IF <<name, index>> \in cons THEN "AlreadyRequested"
    ELSE "ok"

\* the consumed set after request(name, index)
ConsumedAfter(cons, name, index) ==
    IF RequestOutcome(cons, name, index) = "ok" THEN cons \cup {<<name, index>>}
    ELSE cons

\* the handle request(name, index) returns: the entry's wires
Handle(name, index) ==
    [name |-> name, index |-> index, pins |-> PinsOf(Lookup(name, index))]

\* request(name, index): resolve, mark consumed, return the handle; or fail
Request(name, index) ==
    LET r == RequestOutcome(consumed, name, index) IN
    /\ result' = r
    /\ consumed' = ConsumedAfter(consumed, name, index)
    /\ handles' = IF r = "ok" THEN Append(handles, Handle(name, index)) ELSE handles
    /\ calls' = Append(calls, [op |-> "request", name |-> name, index |-> index,
                               result |-> r, before |-> consumed,
                               after |-> ConsumedAfter(consumed, name, index)])

\* request_all's loop: request each index in ascending order, stop at a failure
RECURSIVE RequestEach(_, _, _)
RequestEach(st, name, idxs) ==
    IF idxs = {} THEN st
    ELSE LET i == CHOOSE x \in idxs : \A y \in idxs : x <= y
             r == RequestOutcome(st.consumed, name, i)
         IN  IF r # "ok" THEN [st EXCEPT !.result = r]
             ELSE RequestEach([consumed |-> ConsumedAfter(st.consumed, name, i),
                               got |-> Append(st.got, Handle(name, i)),
                               result |-> "ok"],
                              name, idxs \ {i})

\* request_all(name): every index registered under name, ascending
RequestAll(name) ==
    LET st == IF IndicesOf(name) = {}
              THEN [consumed |-> consumed, got |-> <<>>, result |-> "UnknownResource"]
              ELSE RequestEach([consumed |-> consumed, got |-> <<>>, result |-> "ok"],
                               name, IndicesOf(name))
    IN
    /\ result' = st.result
    /\ consumed' = st.consumed
    /\ handles' = IF st.result = "ok" THEN handles \o st.got ELSE handles
    /\ calls' = Append(calls, [op |-> "request_all", name |-> name, index |-> 0,
                               result |-> st.result, before |-> consumed,
                               after |-> st.consumed])

----------------------------------------------------------------------------
(* Constraint emitter (specification section 4.4) and Platform.__init__ *)

\* add_platform_command(command): appended in call order
AddPlatformCommand(cmds, command) == Append(cmds, command)

RECURSIVE EmitAll(_, _)
EmitAll(cmds, todo) ==
    IF todo = <<>> THEN cmds
    ELSE EmitAll(AddPlatformCommand(cmds, Head(todo)), Tail(todo))

\* mutant: the ENABLE_* directives are written before the fuse directives
PlatformCommandsEnableFirst == <<
    "set_global_assignment -name FAMILY \"Cyclone IV E\"",
    "set_global_assignment -name ENABLE_BOOT_SEL_PIN ON",
    "set_global_assignment -name ENABLE_CONFIGURATION_PINS ON",
    "set_global_assignment -name RESERVE_DATA0_AFTER_CONFIGURATION \"USE AS REGULAR IO\"",
    "set_global_assignment -name RESERVE_DATA1_AFTER_CONFIGURATION \"USE AS REGULAR IO\"",
    "set_global_assignment -name RESERVE_DCLK_AFTER_CONFIGURATION \"USE AS REGULAR IO\"",
    "set_global_assignment -name CYCLONEII_RESERVE_NCEO_AFTER_CONFIGURATION \"USE AS REGULAR IO\"",
    "set_global_assignment -name RESERVE_FLASH_NCE_AFTER_CONFIGURATION \"USE AS REGULAR IO\""
>>

\* the directives Platform.__init__ emits, in the order written
PlatformCommands == <<
    "set_global_assignment -name FAMILY \"Cyclone IV E\"",
    "set_global_assignment -name RESERVE_DATA0_AFTER_CONFIGURATION \"USE AS REGULAR IO\"",
    "set_global_assignment -name RESERVE_DATA1_AFTER_CONFIGURATION \"USE AS REGULAR IO\"",
    "set_global_assignment -name RESERVE_DCLK_AFTER_CONFIGURATION \"USE AS REGULAR IO\"",
    "set_global_assignment -name CYCLONEII_RESERVE_NCEO_AFTER_CONFIGURATION \"USE AS REGULAR IO\"",
    "set_global_assignment -name RESERVE_FLASH_NCE_AFTER_CONFIGURATION \"USE AS REGULAR IO\"",
    "set_global_assignment -name ENABLE_BOOT_SEL_PIN ON",
    "set_global_assignment -name ENABLE_CONFIGURATION_PINS ON"
>>

\* directives a later stage of the build may add
LaterCommands == {"set_global_assignment -name OPTIMIZATION_MODE BALANCED",
                  "set_global_assignment -name VERILOG_INPUT_VERSION SYSTEMVERILOG_2005"}

----------------------------------------------------------------------------
(* _CRG.__init__ *)

\* mutant: the else is lost, so cd_sys_ps is created in "1:2" mode too
ClockDomainsNoElse(sdram_rate) ==
    {[name |-> "sys", reset_less |-> FALSE],
     [name |-> "sys_ps", reset_less |-> TRUE]}
    \cup (IF sdram_rate = "1:2"
          THEN {[name |-> "sys2x", reset_less |-> FALSE],
                [name |-> "sys2x_ps", reset_less |-> TRUE]}
          ELSE {})

\* the ClockDomain objects created for an sdram_rate
ClockDomains(sdram_rate) ==
    {[name |-> "sys", reset_less |-> FALSE]}
    \cup (IF sdram_rate = "1:2"
          THEN {[name |-> "sys2x", reset_less |-> FALSE],
                [name |-> "sys2x_ps", reset_less |-> TRUE]}
          ELSE {[name |-> "sys_ps", reset_less |-> TRUE]})

\* mutant: the "ideal" 90 degree phase instead of the widened one
PllClkOutsIdealPhase(sdram_rate, sys_clk_freq) ==
    {[cd |-> "sys", freq |-> sys_clk_freq, phase |-> 0]}
    \cup (IF sdram_rate = "1:2"
          THEN {[cd |-> "sys2x", freq |-> 2 * sys_clk_freq, phase |-> 0],
                [cd |-> "sys2x_ps", freq |-> 2 * sys_clk_freq, phase |-> 90]}
          ELSE {[cd |-> "sys_ps", freq |-> sys_clk_freq, phase |-> 90]})

\* the pll.create_clkout calls (phase defaults to 0)
PllClkOuts(sdram_rate, sys_clk_freq) ==
    {[cd |-> "sys", freq |-> sys_clk_freq, phase |-> 0]}
    \cup (IF sdram_rate = "1:2"
          THEN {[cd |-> "sys2x", freq |-> 2 * sys_clk_freq, phase |-> 0],
                [cd |-> "sys2x_ps", freq |-> 2 * sys_clk_freq, phase |-> 270]}
          ELSE {[cd |-> "sys_ps", freq |-> sys_clk_freq, phase |-> 180]})

\* mutant: the memory clock is always taken from sys_ps
SdramClkDomainAlwaysSysPs(sdram_rate) == "sys_ps"

\* the domain named by ClockSignal(...) for the SDRAM clock pin
SdramClkDomain(sdram_rate) == IF sdram_rate = "1:2" THEN "sys2x_ps" ELSE "sys_ps"

----------------------------------------------------------------------------
(* BaseSoC.__init__: one build, step by step *)

\* --sdram-rate is a free string; "1:4" stands for any value outside the enumeration
SdramRates == {"1:1", "1:2", "1:4"}

\* --sys-clk-freq in Hz (50e6 is the default)
SysClkFreqs == {25000000, 50000000}

Options == [sdram_rate : SdramRates, sys_clk_freq : SysClkFreqs,
            with_led_chaser : BOOLEAN, with_lcd_gpio : BOOLEAN,
            integrated_main_ram : BOOLEAN]

\* the defaults of BaseSoC.__init__
DefaultOptions == [sdram_rate |-> "1:1", sys_clk_freq |-> 50000000,
                   with_led_chaser |-> TRUE, with_lcd_gpio |-> FALSE,
                   integrated_main_ram |-> FALSE]

\* a failed request raises: construction stops there
After(next) == IF result' = "ok" THEN next ELSE "aborted"

Init ==
    /\ pc = "new"
    /\ opts \in Options
    /\ consumed = {}
    /\ handles = <<>>
    /\ result = "none"
    /\ calls = <<>>
    /\ commands = <<>>
    /\ emitted = <<>>
    /\ domains = {}
    /\ clkouts = {}
    /\ sdram_clk = "none"

\* platform = Platform(): the eight add_platform_command calls
PlatformInit ==
    /\ pc = "new"
    /\ commands' = EmitAll(commands, PlatformCommands)
    /\ emitted' = emitted \o PlatformCommands
    /\ pc' = "soccore"
    /\ UNCHANGED <<opts, consumed, handles, result, calls, domains, clkouts, sdram_clk>>

\* SoCCore.__init__(self, platform, sys_clk_freq, ...): the SoC core takes the UART pads
SoCCoreInit ==
    /\ pc = "soccore"
    /\ Request("serial", 0)
    /\ pc' = After("crg_domains")
    /\ UNCHANGED <<opts, commands, emitted, domains, clkouts, sdram_clk>>

\* _CRG.__init__: the ClockDomain objects
CRGDomains ==
    /\ pc = "crg_domains"
    /\ domains' = ClockDomains(opts.sdram_rate)
    /\ pc' = "crg_clk50"
    /\ UNCHANGED <<opts, consumed, handles, result, calls, commands, emitted,
                   clkouts, sdram_clk>>

\* _CRG.__init__: clk50 = platform.request("clk50")
CRGRequestClk50 ==
    /\ pc = "crg_clk50"
    /\ Request("clk50", 0)
    /\ pc' = After("crg_rst_n")
    /\ UNCHANGED <<opts, commands, emitted, domains, clkouts, sdram_clk>>

\* mutant: the preceding line copied, the resource name left unchanged
CRGRequestRstNAsClk50 ==
    /\ pc = "crg_rst_n"
    /\ Request("clk50", 0)
    /\ pc' = After("crg_pll")
    /\ UNCHANGED <<opts, commands, emitted, domains, clkouts, sdram_clk>>

\* _CRG.__init__: rst_n = platform.request("rst_n")
CRGRequestRstN ==
    /\ pc = "crg_rst_n"
    /\ Request("rst_n", 0)
    /\ pc' = After("crg_pll")
    /\ UNCHANGED <<opts, commands, emitted, domains, clkouts, sdram_clk>>

\* _CRG.__init__: the PLL and its outputs
CRGPll ==
    /\ pc = "crg_pll"
    /\ clkouts' = PllClkOuts(opts.sdram_rate, opts.sys_clk_freq)
    /\ pc' = "crg_sdram_clock"
    /\ UNCHANGED <<opts, consumed, handles, result, calls, commands, emitted,
                   domains, sdram_clk>>

\* _CRG.__init__: the SDRAM clock, driven out through the sdram_clock pin
CRGSdramClock ==
    /\ pc = "crg_sdram_clock"
    /\ sdram_clk' = SdramClkDomain(opts.sdram_rate)
    /\ Request("sdram_clock", 0)
    /\ pc' = After("sdram")
    /\ UNCHANGED <<opts, commands, emitted, domains, clkouts>>

\* SDR SDRAM: only without an integrated main RAM
AddSdram ==
    /\ pc = "sdram"
    /\ IF ~opts.integrated_main_ram
       THEN Request("sdram", 0) /\ pc' = After("spiflash")
       ELSE pc' = "spiflash" /\ UNCHANGED <<consumed, handles, result, calls>>
    /\ UNCHANGED <<opts, commands, emitted, domains, clkouts, sdram_clk>>

\* self.add_spi_flash(mode="1x", ...): the flash core takes the spiflash pads
AddSpiFlash ==
    /\ pc = "spiflash"
    /\ Request("spiflash", 0)
    /\ pc' = After("leds")
    /\ UNCHANGED <<opts, commands, emitted, domains, clkouts, sdram_clk>>

\* Leds: platform.request_all("user_led")
AddLeds ==
    /\ pc = "leds"
    /\ IF opts.with_led_chaser
       THEN RequestAll("user_led") /\ pc' = After("lcd")
       ELSE pc' = "lcd" /\ UNCHANGED <<consumed, handles, result, calls>>
    /\ UNCHANGED <<opts, commands, emitted, domains, clkouts, sdram_clk>>

\* GPIOOut for LCD: platform.request("lcd_display")
AddLcd ==
    /\ pc = "lcd"
    /\ IF opts.with_lcd_gpio
       THEN Request("lcd_display", 0) /\ pc' = After("done")
       ELSE pc' = "done" /\ UNCHANGED <<consumed, handles, result, calls>>
    /\ UNCHANGED <<opts, commands, emitted, domains, clkouts, sdram_clk>>

\* a directive added once the platform exists (SoC assembly, finalize)
Emit ==
    /\ pc \notin {"new", "free"}
    /\ Len(commands) < Len(PlatformCommands) + MaxEmits
    /\ \E command \in LaterCommands :
          /\ commands' = AddPlatformCommand(commands, command)
          /\ emitted' = Append(emitted, command)
    /\ UNCHANGED <<pc, opts, consumed, handles, result, calls, domains, clkouts,
                   sdram_clk>>

Next ==
    \/ PlatformInit
    \/ SoCCoreInit
    \/ CRGDomains
    \/ CRGRequestClk50
    \/ CRGRequestRstN
    \/ CRGPll
    \/ CRGSdramClock
    \/ AddSdram
    \/ AddSpiFlash
    \/ AddLeds
    \/ AddLcd
    \/ Emit

Spec == Init /\ [][Next]_vars

----------------------------------------------------------------------------
(* A bare platform instance under arbitrary resolver calls *)

\* pairs no entry of the table has
AbsentPairs == {<<"missing_clock", 0>>, <<"user_led", 4>>, <<"clk50", 1>>}

RequestInputs == RegistryPairs \cup AbsentPairs

RequestAllNames == {"user_led", "key", "serial", "ps2", "missing_clock"}

InitPlatform ==
    /\ pc = "free"
    /\ opts = DefaultOptions
    /\ consumed = {}
    /\ handles = <<>>
    /\ result = "none"
    /\ calls = <<>>
    /\ commands = EmitAll(<<>>, PlatformCommands)
    /\ emitted = PlatformCommands
    /\ domains = {}
    /\ clkouts = {}
    /\ sdram_clk = "none"

PlatformRequest ==
    /\ pc = "free"
    /\ Len(calls) < MaxCalls
    /\ \E p \in RequestInputs : Request(p[1], p[2])
    /\ UNCHANGED <<pc, opts, commands, emitted, domains, clkouts, sdram_clk>>

PlatformRequestAll ==
    /\ pc = "free"
    /\ Len(calls) < MaxCalls
    /\ \E name \in RequestAllNames : RequestAll(name)
    /\ UNCHANGED <<pc, opts, commands, emitted, domains, clkouts, sdram_clk>>

NextPlatform == PlatformRequest \/ PlatformRequestAll

SpecPlatform == InitPlatform /\ [][NextPlatform]_vars

----------------------------------------------------------------------------
(* Properties *)

\* C1: over the whole pin table the platform is constructed with, (name, index)
\* is unique across entries and no physical pin identifier is listed by two
\* distinct entries.
RegistryWellFormed ==
    pc # "new" =>
        \A j, k \in DOMAIN _io :
            j # k =>
                /\ <<_io[j].name, _io[j].index>> # <<_io[k].name, _io[k].index>>
                /\ PinsOf(_io[j]) \cap PinsOf(_io[k]) = {}

\* the CRG's constructor has returned
CRGDone == pc \in {"sdram", "spiflash", "leds", "lcd", "done"}

\* the CRG's constructor has been entered and has run its first statements
CRGStarted == pc \in {"crg_clk50", "crg_rst_n", "crg_pll", "crg_sdram_clock"} \/ CRGDone

\* the resources _CRG.__init__ requests
CRGPairs == {<<"clk50", 0>>, <<"rst_n", 0>>, <<"sdram_clock", 0>>}

\* each created domain with the frequency and phase of its PLL output
DomainTable ==
    {[name |-> x[1].name, reset_less |-> x[1].reset_less,
      freq |-> x[2].freq, phase |-> x[2].phase] :
        x \in {y \in domains \X clkouts : y[1].name = y[2].cd}}

\* C2: with an sdram_rate other than "1:1" or "1:2" the CRG's construction ends in
\* a configuration error, and no clock domain has been created, no resource
\* requested by the CRG and no PLL output configured.
InvalidRateRejected ==
    opts.sdram_rate \notin {"1:1", "1:2"} =>
        /\ domains = {}
        /\ clkouts = {}
        /\ consumed \cap CRGPairs = {}
        /\ sdram_clk = "none"
        /\ ~CRGStarted

FullRateDomains ==
    (CRGDone /\ opts.sdram_rate = "1:1") =>
        /\ Cardinality(domains) = 2
        /\ Cardinality(clkouts) = 2
        /\ DomainTable =
             {[name |-> "sys", reset_less |-> FALSE,
               freq |-> opts.sys_clk_freq, phase |-> 0],
              [name |-> "sys_ps", reset_less |-> TRUE,
               freq |-> opts.sys_clk_freq, phase |-> 180]}
        /\ \A d \in domains : d.name \notin {"sys2x", "sys2x_ps"}

FullRateBuilt == pc = "done" /\ opts.sdram_rate = "1:1"

\* C5: for a pair of the registry the first request succeeds and marks the pair
\* consumed, every later request for it fails with AlreadyRequested; a request
\* for a pair absent from the registry fails with UnknownResource; a failing
\* request leaves the consumed set unchanged.
RequestOnceOnly ==
    \A k \in DOMAIN calls :
        calls[k].op = "request" =>
            LET c == calls[k]
                p == <<c.name, c.index>>
                earlierRequests ==
                    {j \in 1..(k - 1) : /\ calls[j].op = "request"
                                        /\ <<calls[j].name, calls[j].index>> = p}
                earlierBanks ==
                    {j \in 1..(k - 1) : /\ calls[j].op = "request_all"
                                        /\ calls[j].name = c.name}
            IN  /\ p \notin RegistryPairs => c.result = "UnknownResource"
                /\ (p \in RegistryPairs /\ earlierRequests = {} /\ earlierBanks = {})
                      => (c.result = "ok" /\ c.after = c.before \cup {p}
                          /\ p \notin c.before /\ p \in consumed)
                /\ (p \in RegistryPairs /\ earlierRequests # {})
                      => c.result = "AlreadyRequested"
                /\ c.result # "ok" => c.after = c.before

\* the same registered pair requested three times
RequestedThrice ==
    /\ Len(calls) = 3
    /\ \A k \in 1..3 : calls[k].op = "request" /\ calls[k].name = "user_led"
                       /\ calls[k].index = 2
    /\ calls[1].result = "ok"
    /\ calls[3].result = "AlreadyRequested"

\* C6: no physical pin identifier belongs to two successfully returned handles.
NoPinClaimedTwice ==
    \A j, k \in DOMAIN handles :
        j # k => handles[j].pins \cap handles[k].pins = {}

\* C7: the accumulated directives are the emitted commands in call order, and
\* after Platform construction the five "USE AS REGULAR IO" directives and the
\* two ENABLE_* directives stand in the order written, before any later one.
EmitOrderPreserved ==
    /\ commands = emitted
    /\ pc # "new" =>
          /\ Len(commands) >= 8
          /\ SubSeq(commands, 2, 8) =
               << "set_global_assignment -name RESERVE_DATA0_AFTER_CONFIGURATION \"USE AS REGULAR IO\"",
                  "set_global_assignment -name RESERVE_DATA1_AFTER_CONFIGURATION \"USE AS REGULAR IO\"",
                  "set_global_assignment -name RESERVE_DCLK_AFTER_CONFIGURATION \"USE AS REGULAR IO\"",
                  "set_global_assignment -name CYCLONEII_RESERVE_NCEO_AFTER_CONFIGURATION \"USE AS REGULAR IO\"",
                  "set_global_assignment -name RESERVE_FLASH_NCE_AFTER_CONFIGURATION \"USE AS REGULAR IO\"",
                  "set_global_assignment -name ENABLE_BOOT_SEL_PIN ON",
                  "set_global_assignment -name ENABLE_CONFIGURATION_PINS ON" >>
          /\ \A k \in 9..Len(commands) : commands[k] \in LaterCommands

\* two different later directives follow the platform's own
LaterDirectivesEmitted ==
    /\ pc = "done"
    /\ Len(commands) = 10
    /\ commands[9] # commands[10]

\* C9: the SDRAM clock is taken from sys2x_ps when sdram_rate is "1:2" and from
\* sys_ps otherwise, and that domain is one the CRG created, reset-less and
\* phase-shifted.
SdramClockFromCreatedDomain ==
    sdram_clk # "none" =>
        /\ sdram_clk = (IF opts.sdram_rate = "1:2" THEN "sys2x_ps" ELSE "sys_ps")
        /\ \E d \in domains : d.name = sdram_clk /\ d.reset_less
        /\ \E o \in clkouts : o.cd = sdram_clk /\ o.phase # 0

SdramClockHalfRate == pc = "done" /\ sdram_clk = "sys2x_ps"

\* C10: for every combination of options one SoC assembly never requests the
\* same (name, index) twice and never claims a pin an earlier handle of the
\* build holds, so assembly never aborts with AlreadyRequested.
AssemblyNeverConflicts ==
    /\ pc # "aborted"
    /\ result \in {"none", "ok"}
    /\ \A k \in DOMAIN calls : calls[k].result = "ok"
    /\ \A j, k \in DOMAIN handles :
          j # k => /\ <<handles[j].name, handles[j].index>>
                        # <<handles[k].name, handles[k].index>>
                   /\ handles[j].pins \cap handles[k].pins = {}

\* the largest build: SDRAM, LED bank and LCD all requested
FullAssemblyDone ==
    /\ pc = "done"
    /\ opts.with_led_chaser /\ opts.with_lcd_gpio /\ ~opts.integrated_main_ram
    /\ Len(handles) = 11

====
